---- MODULE Spec2Model ----
(***************************************************************************)
(* The blog application (blog/views.py, blog/models.py, blog/forms.py):    *)
(* the like/dislike toggle, the favorite toggle and the rating upsert, as  *)
(* sequential request handlers and as requests whose store operations      *)
(* interleave (every ORM call commits on its own); comments and replies;   *)
(* creating, updating, publishing and deleting posts; the listings         *)
(* blog_list, author_list and author_detail compute from the store; the    *)
(* paginated comment list of blog_detail; and Blog.average_rating.         *)
(***************************************************************************)
EXTENDS Integers, Sequences, FiniteSets, TLC

\* ---------------------------------------------------------------- bounds
NumUsers == 2
NumBlogs == 1
MaxFavId == 3
MaxCommentId == 2
MaxRatings == 4
MaxListed == 22

\* -------------------------------------------------------------- universe
\* request.user of a request without a session (is_authenticated is False);
\* it has no primary key, 0 stands for it
Anonymous == 0
\* primary keys of the registered users
Users == 1..NumUsers
\* the pk a URL may carry: the posts the store starts with and the pk the
\* next created post gets (no post has it until then)
PostIds == 1..(NumBlogs + 1)
Pairs == Users \X PostIds
\* the "reaction" member of the JSON body; Malformed is a body json.loads rejects
Malformed == "malformed"
Reactions == {"like", "dislike", "other", Malformed}

VARIABLES
    blogs,        \* Blog rows: the set of their pks
    blogRow,      \* Blog rows: author, published and title of each pk
    blogNextId,   \* Blog's AutoField sequence: the next pk
    comments,     \* Comment table: set of rows [id, blog, user, parent]
    commentNextId, \* Comment's AutoField sequence: the next pk
    likes,        \* Like table: number of rows per (user, blog)
    dislikes,     \* Dislike table: number of rows per (user, blog)
    favorites,    \* Favorite table: set of rows [id, user, blog]
    favNextId,    \* Favorite's AutoField sequence: the next pk
    ratings,      \* Rating table: the scores of the rows of each (user, blog)
    last,         \* the request handled last, with its response
    req,          \* the requests in flight (interleaved handlers), per worker
    start,        \* the tables as they were when the requests in flight began
    view          \* what a read of stored data was given and what it returned

vars == <<blogs, blogRow, blogNextId, comments, commentNextId, likes, dislikes,
         favorites, favNextId, ratings, last, req, start, view>>

\* ------------------------------------------------- Like / Dislike tables
RECURSIVE SumOver(_, _)
SumOver(S, f) ==
    IF S = {} THEN 0
    ELSE LET x == CHOOSE y \in S : TRUE IN f[x] + SumOver(S \ {x}, f)

\* Model.objects.filter(user=u, blog=b).exists()
RowExists(t, u, b) == t[<<u, b>>] > 0

\* Model.objects.filter(user=u, blog=b).delete(): every matching row goes
RowFilterDeleteNothing(t, u, b) == t

RowFilterDelete(t, u, b) == [t EXCEPT ![<<u, b>>] = 0]

\* unique_together = ('user', 'blog'): the INSERT that Model.objects.create
\* issues fails with IntegrityError when the pair already has a row
UniqueViolation(t, u, b) == t[<<u, b>>] >= 1

\* the row Model.objects.create(user=u, blog=b) inserts
RowInsert(t, u, b) == [t EXCEPT ![<<u, b>>] = @ + 1]

\* blog.like_set.count() / blog.dislike_set.count()
RowCount(t, b) == SumOver({p \in Pairs : p[2] = b}, t)

\* the reaction of (u, b) as the two tables hold it
ReactionState(l, d, u, b) ==
    IF l[<<u, b>>] > 0 /\ d[<<u, b>>] > 0 THEN "both"
    ELSE IF l[<<u, b>>] > 0 THEN "liked"
    ELSE IF d[<<u, b>>] > 0 THEN "disliked"
    ELSE "none"

\* user_reaction of the JSON response: Like is looked up first, then Dislike
UserReaction(l, d, u, b) ==
    IF RowExists(l, u, b) THEN "like"
    ELSE IF RowExists(d, u, b) THEN "dislike"
    ELSE "none"

\* --------------------------------------------------------- Favorite table
FavRows(f, u, b) == {r \in f : r.user = u /\ r.blog = b}

\* Favorite.objects.get(user=u, blog=b): the pk of the one matching row, or
\* the exception get raises
FavGet(f, u, b) ==
    LET rows == FavRows(f, u, b) IN
    IF rows = {} THEN [exc |-> "DoesNotExist", id |-> 0]
    ELSE IF Cardinality(rows) > 1 THEN [exc |-> "MultipleObjectsReturned", id |-> 0]
    ELSE [exc |-> "", id |-> (CHOOSE r \in rows : TRUE).id]

\* unique_together = ('user', 'blog') on Favorite: the INSERT fails with
\* IntegrityError when the pair already has a row
FavUniqueViolation(f, u, b) == FavRows(f, u, b) # {}

\* the row the INSERT of get_or_create adds, with the next pk of the sequence
FavInsert(f, id, u, b) == f \cup {[id |-> id, user |-> u, blog |-> b]}

\* favorite.delete(): DELETE of the row with the instance's pk, if it is
\* still there
FavDeleteInstance(f, id) == {r \in f : r.id # id}

\* Favorite.objects.get_or_create(user=u, blog=b): get; on DoesNotExist
\* create; on IntegrityError get again and re-raise if the row is gone
GetOrCreateAlwaysCreates(f, nextId, u, b) ==
    [favorites |-> FavInsert(f, nextId, u, b), nextId |-> nextId + 1,
     id |-> nextId, created |-> TRUE, exc |-> ""]

GetOrCreate(f, nextId, u, b) ==
    LET got == FavGet(f, u, b) IN
    IF got.exc = ""
    THEN [favorites |-> f, nextId |-> nextId, id |-> got.id,
          created |-> FALSE, exc |-> ""]
    ELSE IF got.exc = "MultipleObjectsReturned"
    THEN [favorites |-> f, nextId |-> nextId, id |-> 0,
          created |-> FALSE, exc |-> got.exc]
    ELSE IF ~FavUniqueViolation(f, u, b)
    THEN [favorites |-> FavInsert(f, nextId, u, b), nextId |-> nextId + 1,
          id |-> nextId, created |-> TRUE, exc |-> ""]
    ELSE LET again == FavGet(f, u, b) IN
         IF again.exc = ""
         THEN [favorites |-> f, nextId |-> nextId, id |-> again.id,
               created |-> FALSE, exc |-> ""]
         ELSE [favorites |-> f, nextId |-> nextId, id |-> 0,
               created |-> FALSE, exc |-> "IntegrityError"]

\* ----------------------------------------------------------- Rating table
RatingRows(t, u, b) == t[<<u, b>>]

\* RATING_CHOICES = [(i, i) for i in range(1, 6)]
MinScore == 1
MaxScore == 5

\* str(i) of a one-digit integer, and the int(text) the IntegerField stores
Str(i) == <<"0", "1", "2", "3", "4", "5", "6", "7", "8", "9">>[i + 1]

ToInt(text) == CHOOSE i \in 0..9 : Str(i) = text

\* RatingForm.is_valid(): the ChoiceField accepts the text of a choice key
RatingFormAcceptsZero(text) == \E i \in 0..MaxScore : text = Str(i)

RatingFormIsValid(text) == \E i \in MinScore..MaxScore : text = Str(i)

\* Rating.objects.update_or_create(user=u, blog=b, defaults={'score': s}):
\* the matching row is fetched and its score saved, or a row is created
UpdateOrCreateAlwaysCreates(t, u, b, score) ==
    [ratings |-> [t EXCEPT ![<<u, b>>] = Append(@, score)], exc |-> ""]

UpdateOrCreate(t, u, b, score) ==
    LET rows == RatingRows(t, u, b) IN
    IF Len(rows) > 1
    THEN [ratings |-> t, exc |-> "MultipleObjectsReturned"]
    ELSE IF Len(rows) = 1
    THEN [ratings |-> [t EXCEPT ![<<u, b>>] = [@ EXCEPT ![1] = score]], exc |-> ""]
    ELSE [ratings |-> [t EXCEPT ![<<u, b>>] = Append(@, score)], exc |-> ""]

\* ------------------------------------------------ the request handled last
\* What the handler found for (u, pk) before it changed anything.
Before(u, pk) ==
    [likes    |-> RowCount(likes, pk),
     dislikes |-> RowCount(dislikes, pk),
     reaction |-> ReactionState(likes, dislikes, u, pk),
     favs     |-> Cardinality(FavRows(favorites, u, pk)),
     scores   |-> RatingRows(ratings, u, pk),
     comments |-> {c \in comments : c.blog = pk}]

NoBefore ==
    [likes |-> 0, dislikes |-> 0, reaction |-> "n/a", favs |-> 0, scores |-> <<>>,
     comments |-> {}]

NoJson == [likes_count |-> 0, dislikes_count |-> 0, user_reaction |-> "n/a"]

NoRequest ==
    [op |-> "none", user |-> Anonymous, pk |-> 0, arg |-> "", status |-> 0,
     exc |-> "", message |-> "", warning |-> FALSE, json |-> NoJson,
     before |-> NoBefore, twice |-> FALSE, before2 |-> NoBefore]

\* The record of a handled request. twice: the request handled before it was
\* the same request (operation, user, post, argument) and also ended with
\* this status; before2 is then what that earlier request found.
Handled(op, user, pk, arg, status, exc, message, warning, json, before) ==
    LET again == /\ last.op = op /\ last.user = user /\ last.pk = pk
                 /\ last.arg = arg /\ last.status = status /\ last.exc = ""
                 /\ exc = ""
    IN  [op |-> op, user |-> user, pk |-> pk, arg |-> arg, status |-> status,
         exc |-> exc, message |-> message, warning |-> warning, json |-> json,
         before |-> before, twice |-> again,
         before2 |-> IF again THEN last.before ELSE NoBefore]

\* ------------------------------------------------------ like_dislike_post
\* reaction == 'like': the tables after the branch, or the exception it raises
ToggleLikeNoCleanup(l, d, u, b) ==
    IF RowExists(l, u, b)
    THEN [likes |-> RowFilterDelete(l, u, b), dislikes |-> d, exc |-> ""]
    ELSE [likes |-> RowInsert(l, u, b), dislikes |-> d, exc |-> ""]

ToggleLike(l, d, u, b) ==
    LET like_exists == RowExists(l, u, b)
        dislike_exists == RowExists(d, u, b)
    IN  IF like_exists
        THEN [likes |-> RowFilterDelete(l, u, b), dislikes |-> d, exc |-> ""]
        ELSE IF UniqueViolation(l, u, b)
        THEN [likes |-> l, dislikes |-> d, exc |-> "IntegrityError"]
        ELSE [likes |-> RowInsert(l, u, b),
              dislikes |-> IF dislike_exists THEN RowFilterDelete(d, u, b) ELSE d,
              exc |-> ""]

\* reaction == 'dislike': the mirror branch
ToggleDislikeKeepsLike(l, d, u, b) ==
    IF RowExists(d, u, b)
    THEN [likes |-> l, dislikes |-> RowFilterDelete(d, u, b), exc |-> ""]
    ELSE [likes |-> l, dislikes |-> RowInsert(d, u, b), exc |-> ""]

ToggleDislike(l, d, u, b) ==
    LET dislike_exists == RowExists(d, u, b)
        like_exists == RowExists(l, u, b)
    IN  IF dislike_exists
        THEN [likes |-> l, dislikes |-> RowFilterDelete(d, u, b), exc |-> ""]
        ELSE IF UniqueViolation(d, u, b)
        THEN [likes |-> l, dislikes |-> d, exc |-> "IntegrityError"]
        ELSE [likes |-> IF like_exists THEN RowFilterDelete(l, u, b) ELSE l,
              dislikes |-> RowInsert(d, u, b),
              exc |-> ""]

\* the if / elif on the reaction: any other value changes nothing
ApplyReaction(l, d, u, b, reaction) ==
    IF reaction = "like" THEN ToggleLike(l, d, u, b)
    ELSE IF reaction = "dislike" THEN ToggleDislike(l, d, u, b)
    ELSE [likes |-> l, dislikes |-> d, exc |-> ""]

\* the counts and the caller's reaction the JSON response carries
StaleJson(l, d, l2, d2, u, b) ==
    [likes_count |-> RowCount(l, b),
     dislikes_count |-> RowCount(d, b),
     user_reaction |-> UserReaction(l, d, u, b)]

LikeDislikeJson(l, d, l2, d2, u, b) ==
    [likes_count |-> RowCount(l2, b),
     dislikes_count |-> RowCount(d2, b),
     user_reaction |-> UserReaction(l2, d2, u, b)]

\* Blog.objects.get(pk=pk) raises Blog.DoesNotExist
BlogNeverMissing(pk) == FALSE

BlogDoesNotExist(pk) == pk \notin blogs

\* The whole handler, one request after another.
like_dislike_post(user, pk, reaction) ==
    /\ UNCHANGED <<blogs, blogRow, blogNextId, comments, commentNextId,
                 favorites, favNextId, ratings, req, start, view>>
    /\ IF user = Anonymous
       THEN /\ last' = Handled("like_dislike_post", user, pk, reaction, 403, "",
                               "Authentication required", FALSE, NoJson, NoBefore)
            /\ UNCHANGED <<likes, dislikes>>
       ELSE IF BlogDoesNotExist(pk)
       THEN /\ last' = Handled("like_dislike_post", user, pk, reaction, 404, "",
                               "Blog post not found", FALSE, NoJson, NoBefore)
            /\ UNCHANGED <<likes, dislikes>>
       ELSE IF reaction = Malformed
       THEN /\ last' = Handled("like_dislike_post", user, pk, reaction, 500,
                               "JSONDecodeError", "", FALSE, NoJson, NoBefore)
            /\ UNCHANGED <<likes, dislikes>>
       ELSE LET after == ApplyReaction(likes, dislikes, user, pk, reaction) IN
            /\ likes' = after.likes
            /\ dislikes' = after.dislikes
            /\ last' = IF after.exc # ""
                       THEN Handled("like_dislike_post", user, pk, reaction, 500,
                                    after.exc, "", FALSE, NoJson, Before(user, pk))
                       ELSE Handled("like_dislike_post", user, pk, reaction, 200, "",
                                    "", FALSE,
                                    LikeDislikeJson(likes, dislikes, after.likes,
                                                    after.dislikes, user, pk),
                                    Before(user, pk))

\* -------------------------------------------------------- toggle_favorite
\* get_or_create and the branch on created: the table after a toggle that
\* is handled without interruption
FavoriteToggled(f, nextId, u, b) ==
    LET goc == GetOrCreate(f, nextId, u, b) IN
    [goc EXCEPT !.favorites = IF goc.exc = "" /\ ~goc.created
                              THEN FavDeleteInstance(goc.favorites, goc.id)
                              ELSE goc.favorites]

\* The whole handler, one request after another. mail_ok: whether send_mail
\* delivers or raises. A request that would insert is taken only while the
\* pk sequence is within MaxFavId.
\* send_mail inside try/except after a row was added: the table and the
\* response once the mail is sent or its exception is caught
SendMailUndoesFavorite(tog, mail_ok) ==
    IF mail_ok
    THEN [favorites |-> tog.favorites, status |-> 302, exc |-> "", warning |-> FALSE]
    ELSE [favorites |-> FavDeleteInstance(tog.favorites, tog.id), status |-> 500,
          exc |-> "SMTPException", warning |-> FALSE]

AfterSendMail(tog, mail_ok) ==
    [favorites |-> tog.favorites, status |-> 302, exc |-> "", warning |-> ~mail_ok]

ToggleFavoriteAndUnlike(user, pk, mail_ok) ==
    LET tog == FavoriteToggled(favorites, favNextId, user, pk) IN
    /\ user # Anonymous /\ ~BlogDoesNotExist(pk) /\ tog.exc = ""
    /\ tog.created => favNextId <= MaxFavId
    /\ favNextId' = tog.nextId
    /\ favorites' = tog.favorites
    /\ likes' = RowFilterDelete(likes, user, pk)
    /\ last' = Handled("toggle_favorite", user, pk, "", 302, "",
                       IF tog.created THEN "Added to favorites!"
                       ELSE "Removed from favorites.",
                       tog.created /\ ~mail_ok, NoJson, Before(user, pk))
    /\ UNCHANGED <<blogs, blogRow, blogNextId, comments, commentNextId, dislikes,
                   ratings, req, start, view>>

toggle_favorite(user, pk, mail_ok) ==
    /\ UNCHANGED <<blogs, blogRow, blogNextId, comments, commentNextId,
                 likes, dislikes, ratings, req, start, view>>
    /\ IF user = Anonymous
       THEN /\ last' = Handled("toggle_favorite", user, pk, "", 302, "",
                               "login", FALSE, NoJson, NoBefore)
            /\ UNCHANGED <<favorites, favNextId>>
       ELSE IF BlogDoesNotExist(pk)
       THEN /\ last' = Handled("toggle_favorite", user, pk, "", 404, "",
                               "", FALSE, NoJson, NoBefore)
            /\ UNCHANGED <<favorites, favNextId>>
       ELSE LET tog == FavoriteToggled(favorites, favNextId, user, pk)
                sent == AfterSendMail(tog, mail_ok)
            IN
            /\ tog.created => favNextId <= MaxFavId
            /\ favNextId' = tog.nextId
            /\ favorites' = IF tog.exc = "" /\ tog.created THEN sent.favorites
                            ELSE tog.favorites
            /\ last' = IF tog.exc # ""
                       THEN Handled("toggle_favorite", user, pk, "", 500, tog.exc,
                                    "", FALSE, NoJson, Before(user, pk))
                       ELSE IF ~tog.created
                       THEN Handled("toggle_favorite", user, pk, "", 302, "",
                                    "Removed from favorites.", FALSE, NoJson,
                                    Before(user, pk))
                       ELSE Handled("toggle_favorite", user, pk, "", sent.status,
                                    sent.exc, "Added to favorites!", sent.warning,
                                    NoJson, Before(user, pk))

\* ------------------------------------------- blog_detail: rating_form POST
\* The texts a rating form may carry in its score field: the two ends of the
\* choices, their neighbours outside, and a text that is no number.
ScoreTexts == {"0", "1", "5", "6", "x"}

\* The whole handler for a POST that carries rating_form (and no
\* comment_form), one request after another.
blog_detail_rating(user, pk, text) ==
    /\ UNCHANGED <<blogs, blogRow, blogNextId, comments, commentNextId,
                 likes, dislikes, favorites, favNextId, req, start, view>>
    /\ IF BlogDoesNotExist(pk)
       THEN /\ last' = Handled("blog_detail_rating", user, pk, text, 404, "",
                               "", FALSE, NoJson, NoBefore)
            /\ UNCHANGED ratings
       ELSE IF user = Anonymous
       THEN /\ last' = Handled("blog_detail_rating", user, pk, text, 200, "",
                               "", FALSE, NoJson, NoBefore)
            /\ UNCHANGED ratings
       ELSE IF ~RatingFormIsValid(text)
       THEN /\ last' = Handled("blog_detail_rating", user, pk, text, 200, "",
                               "", FALSE, NoJson, Before(user, pk))
            /\ UNCHANGED ratings
       ELSE LET uoc == UpdateOrCreate(ratings, user, pk, ToInt(text)) IN
            /\ ratings' = uoc.ratings
            /\ last' = IF uoc.exc # ""
                       THEN Handled("blog_detail_rating", user, pk, text, 500,
                                    uoc.exc, "", FALSE, NoJson, Before(user, pk))
                       ELSE Handled("blog_detail_rating", user, pk, text, 302, "",
                                    "Your rating has been saved!", FALSE, NoJson,
                                    Before(user, pk))

\* ------------------------------------------------------------------ users
\* User.is_staff: the last registered user is the staff member
Staff == {NumUsers}

\* Profile.user_type: the first registered user is an author, the others
\* keep the default
UserType(u) == IF u = 1 THEN "author" ELSE "reader"

is_author_or_staff(user) == user \in Staff \/ UserType(user) = "author"

\* ------------------------------------------------------------- Blog table
\* what blogRow holds for a pk that has no row
NoBlogRow == [author |-> Anonymous, published |-> FALSE, title |-> ""]

\* the posts the store starts with: written by the author, not published
FirstBlogRow == [author |-> 1, published |-> FALSE, title |-> "a"]

\* the title and published fields a BlogForm may carry; the other fields are
\* taken to be valid
Titles == {"", "a", "b"}
BlogForms == [title : Titles, published : BOOLEAN]
Methods == {"GET", "POST"}

\* BlogForm.is_valid(): title is a required field
BlogFormIsValid(form) == form.title # ""

\* author_or_staff_required: the error message it redirects with, or "" when
\* it lets the request through to the view
AnyoneMayEdit(user, pk) ==
    IF pk \notin blogs
    THEN "The blog post you are trying to access does not exist."
    ELSE ""

author_or_staff_required(user, pk) ==
    IF pk \notin blogs
    THEN "The blog post you are trying to access does not exist."
    ELSE IF blogRow[pk].author # user /\ user \notin Staff
    THEN "You can only edit or delete your own blogs."
    ELSE ""

\* ---------------------------------------------------------- Comment table
\* parent of a comment row whose parent_comment is NULL
NoParent == 0

CommentRowOwnParent(id, b, u, parent) ==
    [id |-> id, blog |-> b, user |-> u, parent |-> id]

CommentRowOfAuthor(id, b, u, parent) ==
    [id |-> id, blog |-> b, user |-> blogRow[b].author, parent |-> parent]

CommentRow(id, b, u, parent) == [id |-> id, blog |-> b, user |-> u, parent |-> parent]

\* Comment.objects.get(id=i)
CommentAlwaysExists(cs, i) == TRUE

CommentExists(cs, i) == \E c \in cs : c.id = i

CommentGet(cs, i) == CHOOSE c \in cs : c.id = i

\* the content field a comment form may carry, and CommentForm.is_valid():
\* content is a required field
Contents == {"", "text"}
CommentFormIsValid(content) == content # ""

\* parent_comment_id of the POST data: NoParent when the field is absent or
\* empty, else the id it names
ParentIds == 0..MaxCommentId

\* a parent_comment_id that is no number: Comment.objects.get(id=...) raises
\* ValueError for it, which the handler does not catch
NotANumber == -1

\* on_delete=CASCADE of Comment.parent_comment: the rows that go when the
\* rows of doomed go, replies of replies included
RECURSIVE CascadeComments(_, _)
CascadeComments(cs, doomed) ==
    LET more == {c \in cs \ doomed : \E d \in doomed : c.parent = d.id} IN
    IF more = {} THEN doomed ELSE CascadeComments(cs, doomed \cup more)

\* blog.delete(): the engagement tables after the collector has deleted the
\* rows whose blog foreign key is pk (on_delete=CASCADE) and the replies of
\* the deleted comments
KeepEngagement(pk) ==
    [likes |-> likes, dislikes |-> dislikes, favorites |-> favorites,
     ratings |-> ratings, comments |-> comments]

DeleteKeepsComments(pk) ==
    [likes     |-> [p \in Pairs |-> IF p[2] = pk THEN 0 ELSE likes[p]],
     dislikes  |-> [p \in Pairs |-> IF p[2] = pk THEN 0 ELSE dislikes[p]],
     favorites |-> {r \in favorites : r.blog # pk},
     ratings   |-> [p \in Pairs |-> IF p[2] = pk THEN <<>> ELSE ratings[p]],
     comments  |-> comments]

DeleteCascade(pk) ==
    [likes     |-> [p \in Pairs |-> IF p[2] = pk THEN 0 ELSE likes[p]],
     dislikes  |-> [p \in Pairs |-> IF p[2] = pk THEN 0 ELSE dislikes[p]],
     favorites |-> {r \in favorites : r.blog # pk},
     ratings   |-> [p \in Pairs |-> IF p[2] = pk THEN <<>> ELSE ratings[p]],
     comments  |-> comments \ CascadeComments(comments, {c \in comments : c.blog = pk})]

\* ------------------------------------------------------------ blog_create
\* A request that would insert is taken only while the pk sequence is
\* within PostIds.
blog_create(user, method, form) ==
    LET arg == [method |-> method, form |-> form] IN
    /\ UNCHANGED <<comments, commentNextId, likes, dislikes, favorites, favNextId,
                   ratings, req, start, view>>
    /\ IF user = Anonymous \/ ~is_author_or_staff(user)
       THEN /\ last' = Handled("blog_create", user, 0, arg, 302, "", "login",
                               FALSE, NoJson, NoBefore)
            /\ UNCHANGED <<blogs, blogRow, blogNextId>>
       ELSE IF method # "POST" \/ ~BlogFormIsValid(form)
       THEN /\ last' = Handled("blog_create", user, 0, arg, 200, "", "",
                               FALSE, NoJson, NoBefore)
            /\ UNCHANGED <<blogs, blogRow, blogNextId>>
       ELSE /\ blogNextId \in PostIds
            /\ blogs' = blogs \cup {blogNextId}
            /\ blogRow' = [blogRow EXCEPT ![blogNextId] =
                              [author |-> user, published |-> form.published,
                               title |-> form.title]]
            /\ blogNextId' = blogNextId + 1
            /\ last' = Handled("blog_create", user, blogNextId, arg, 302, "",
                               "Blog created successfully!", FALSE, NoJson, NoBefore)

\* ------------------------------ blog_update, publish_post, unpublish_post
\* login_required, then author_or_staff_required, then the view: the
\* response record and the row the post has afterwards
Guarded(op, user, pk, arg, row, status, message) ==
    /\ UNCHANGED <<blogs, blogNextId, comments, commentNextId, likes, dislikes,
                   favorites, favNextId, ratings, req, start, view>>
    /\ IF user = Anonymous
       THEN /\ last' = Handled(op, user, pk, arg, 302, "", "login", FALSE,
                               NoJson, NoBefore)
            /\ UNCHANGED blogRow
       ELSE IF author_or_staff_required(user, pk) # ""
       THEN /\ last' = Handled(op, user, pk, arg, 302, "",
                               author_or_staff_required(user, pk), FALSE,
                               NoJson, NoBefore)
            /\ UNCHANGED blogRow
       ELSE /\ blogRow' = [blogRow EXCEPT ![pk] = row]
            /\ last' = Handled(op, user, pk, arg, status, "", message, FALSE,
                               NoJson, Before(user, pk))

blog_update(user, pk, method, form) ==
    LET saved == method = "POST" /\ BlogFormIsValid(form) IN
    Guarded("blog_update", user, pk, [method |-> method, form |-> form],
            IF saved
            THEN [blogRow[pk] EXCEPT !.title = form.title,
                                     !.published = form.published]
            ELSE blogRow[pk],
            IF saved THEN 302 ELSE 200,
            IF saved THEN "Blog updated successfully!" ELSE "")

publish_post(user, pk, method) ==
    Guarded("publish_post", user, pk, method,
            IF method = "POST" THEN [blogRow[pk] EXCEPT !.published = TRUE]
            ELSE blogRow[pk],
            302,
            IF method = "POST" THEN "Blog published successfully!" ELSE "")

unpublish_post(user, pk, method) ==
    Guarded("unpublish_post", user, pk, method,
            IF method = "POST" THEN [blogRow[pk] EXCEPT !.published = FALSE]
            ELSE blogRow[pk],
            302,
            IF method = "POST" THEN "Blog unpublished successfully!" ELSE "")

\* ------------------------------------------------------------ blog_delete
blog_delete(user, pk, method) ==
    /\ UNCHANGED <<blogNextId, commentNextId, favNextId, req, start, view>>
    /\ LET denied == user = Anonymous \/ author_or_staff_required(user, pk) # ""
           deleted == ~denied /\ method = "POST"
           after == IF deleted THEN DeleteCascade(pk) ELSE KeepEngagement(pk)
       IN  /\ blogs' = IF deleted THEN blogs \ {pk} ELSE blogs
           /\ blogRow' = IF deleted THEN [blogRow EXCEPT ![pk] = NoBlogRow]
                         ELSE blogRow
           /\ likes' = after.likes
           /\ dislikes' = after.dislikes
           /\ favorites' = after.favorites
           /\ ratings' = after.ratings
           /\ comments' = after.comments
           /\ last' = IF user = Anonymous
                      THEN Handled("blog_delete", user, pk, method, 302, "",
                                   "login", FALSE, NoJson, NoBefore)
                      ELSE IF denied
                      THEN Handled("blog_delete", user, pk, method, 302, "",
                                   author_or_staff_required(user, pk), FALSE,
                                   NoJson, NoBefore)
                      ELSE IF deleted
                      THEN Handled("blog_delete", user, pk, method, 302, "",
                                   "Blog deleted successfully!", FALSE, NoJson,
                                   Before(user, pk))
                      ELSE Handled("blog_delete", user, pk, method, 200, "", "",
                                   FALSE, NoJson, Before(user, pk))

\* ------------------------------------------ blog_detail: comment_form POST
\* The whole handler for a POST that carries comment_form (and no
\* rating_form), one request after another. A request that would insert is
\* taken only while the pk sequence is within MaxCommentId.
blog_detail_comment(user, pk, content, parent_comment_id) ==
    LET arg == [content |-> content, parent |-> parent_comment_id] IN
    /\ UNCHANGED <<blogs, blogRow, blogNextId, likes, dislikes, favorites,
                   favNextId, ratings, req, start, view>>
    /\ IF BlogDoesNotExist(pk)
       THEN /\ last' = Handled("blog_detail_comment", user, pk, arg, 404, "",
                               "", FALSE, NoJson, NoBefore)
            /\ UNCHANGED <<comments, commentNextId>>
       ELSE IF ~(CommentFormIsValid(content) /\ user # Anonymous)
       THEN /\ last' = Handled("blog_detail_comment", user, pk, arg, 200, "",
                               "There was an error posting your comment.",
                               FALSE, NoJson,
                               IF user = Anonymous THEN NoBefore
                               ELSE Before(user, pk))
            /\ UNCHANGED <<comments, commentNextId>>
       ELSE IF parent_comment_id = NotANumber
       THEN /\ last' = Handled("blog_detail_comment", user, pk, arg, 500,
                               "ValueError", "", FALSE, NoJson, Before(user, pk))
            /\ UNCHANGED <<comments, commentNextId>>
       ELSE IF parent_comment_id # NoParent
               /\ ~CommentExists(comments, parent_comment_id)
       THEN /\ last' = Handled("blog_detail_comment", user, pk, arg, 302, "",
                               "Invalid comment to reply to.", FALSE, NoJson,
                               Before(user, pk))
            /\ UNCHANGED <<comments, commentNextId>>
       ELSE /\ commentNextId <= MaxCommentId
            /\ comments' = comments \cup
                   {CommentRow(commentNextId, pk, user, parent_comment_id)}
            /\ commentNextId' = commentNextId + 1
            /\ last' = Handled("blog_detail_comment", user, pk, arg, 302, "",
                               "Your comment has been posted!", FALSE, NoJson,
                               Before(user, pk))

\* ------------------------------------------------------- read-only views
\* The rows the listing views read.
Store ==
    [blogs |-> blogs, blogRow |-> blogRow, likes |-> likes, dislikes |-> dislikes,
     favorites |-> favorites, ratings |-> ratings, comments |-> comments]

\* Blog.objects.filter(published=True)
PublishedAndNot(s) == s.blogs

Published(s) == {b \in s.blogs : s.blogRow[b].published}

\* the rows of each table that refer to post b
LikeRows(s, b) == RowCount(s.likes, b)
DislikeRows(s, b) == RowCount(s.dislikes, b)
FavoriteRows(s, b) == Cardinality({r \in s.favorites : r.blog = b})
CommentRows(s, b) == Cardinality({c \in s.comments : c.blog = b})
RatingCount(s, b) == SumOver({p \in Pairs : p[2] = b}, [p \in Pairs |-> Len(s.ratings[p])])

RECURSIVE SeqSum(_)
SeqSum(q) == IF q = <<>> THEN 0 ELSE Head(q) + SeqSum(Tail(q))

ScoreSum(s, b) == SumOver({p \in Pairs : p[2] = b}, [p \in Pairs |-> SeqSum(s.ratings[p])])

\* the rows a LEFT OUTER JOIN gives a post for a relation with n rows
Joined(n) == IF n = 0 THEN 1 ELSE n

\* Count(relation) in a query that joins several relations: COUNT(id) over
\* the joined rows of the post, every one of which carries an id of the
\* relation when the relation has n > 0 rows
JoinCount(n, joinedRows) == IF n = 0 THEN 0 ELSE joinedRows

\* blog_list: the posts of the list (all pages) and of the sidebar, which
\* shows the RecentLimit newest; posts are created in pk order
RecentLimit == 5

blog_list(s) ==
    [blogs |-> Published(s),
     recent_blogs |-> {b \in Published(s) :
                          Cardinality({c \in Published(s) : c > b}) < RecentLimit}]

\* author_detail: the annotated posts of the page (all pages) and the four
\* totals; the query joins like, dislike, favorited_by and comments
AuthorPosts(s, author) == {b \in Published(s) : s.blogRow[b].author = author}

AuthorDetailJoin(s, b) ==
    Joined(LikeRows(s, b)) * Joined(DislikeRows(s, b))
        * Joined(FavoriteRows(s, b)) * Joined(CommentRows(s, b))

Annotated(s, b) ==
    [like_count     |-> JoinCount(LikeRows(s, b), AuthorDetailJoin(s, b)),
     dislike_count  |-> JoinCount(DislikeRows(s, b), AuthorDetailJoin(s, b)),
     favorite_count |-> JoinCount(FavoriteRows(s, b), AuthorDetailJoin(s, b)),
     comment_count  |-> JoinCount(CommentRows(s, b), AuthorDetailJoin(s, b))]

author_detail(s, author) ==
    LET posts == AuthorPosts(s, author)
        ann == [b \in posts |-> Annotated(s, b)]
    IN  [blogs |-> ann,
         total_likes     |-> SumOver(posts, [b \in posts |-> ann[b].like_count]),
         total_dislikes  |-> SumOver(posts, [b \in posts |-> ann[b].dislike_count]),
         total_favorites |-> SumOver(posts, [b \in posts |-> ann[b].favorite_count]),
         total_comments  |-> SumOver(posts, [b \in posts |-> ann[b].comment_count])]

\* author_list: the annotations of each author; the query joins blog_posts
\* and, through it, like, comments, favorited_by and blog_ratings, and every
\* aggregate is filtered on blog_posts__published. avg_rating is the Avg as
\* the pair of the sum and the number of the scores it averages (n = 0: None)
Authors == {u \in Users : UserType(u) = "author"}

AuthorListJoin(s, b) ==
    Joined(LikeRows(s, b)) * Joined(CommentRows(s, b))
        * Joined(FavoriteRows(s, b)) * Joined(RatingCount(s, b))

author_list(s) ==
    [a \in Authors |->
        LET posts == AuthorPosts(s, a) IN
        [blog_count |-> SumOver(posts, [b \in posts |-> AuthorListJoin(s, b)]),
         total_likes |->
             SumOver(posts, [b \in posts |->
                 JoinCount(LikeRows(s, b), AuthorListJoin(s, b))]),
         total_comments |->
             SumOver(posts, [b \in posts |->
                 JoinCount(CommentRows(s, b), AuthorListJoin(s, b))]),
         total_favorites |->
             SumOver(posts, [b \in posts |->
                 JoinCount(FavoriteRows(s, b), AuthorListJoin(s, b))]),
         avg_rating |->
             [sum |-> SumOver(posts, [b \in posts |->
                          ScoreSum(s, b) * Joined(LikeRows(s, b))
                              * Joined(CommentRows(s, b))
                              * Joined(FavoriteRows(s, b))]),
              n |-> SumOver(posts, [b \in posts |->
                        JoinCount(RatingCount(s, b), AuthorListJoin(s, b))])]]]

\* ---------------------------------------------------------------- workers
\* The two server workers that handle requests at the same time.
Workers == {"w1", "w2"}

\* A worker with no request: its handler's local variables are unset.
Idle ==
    [pc |-> "idle", op |-> "none", user |-> Anonymous, pk |-> 0, arg |-> "",
     like_exists |-> FALSE, dislike_exists |-> FALSE, favorite |-> 0,
     created |-> FALSE, status |-> 0, exc |-> "", json |-> NoJson,
     message |-> "", warning |-> FALSE]

Tables ==
    [likes |-> likes, dislikes |-> dislikes, favorites |-> favorites,
     favNextId |-> favNextId]

\* --------------------------------------------------- Blog.average_rating
\* The scores of the Rating rows of one post: how many rows hold each score.
BagCount(m) == SumOver(MinScore..MaxScore, m)
BagSum(m) == SumOver(MinScore..MaxScore, [s \in MinScore..MaxScore |-> s * m[s]])
ScoreBags == {m \in [MinScore..MaxScore -> 0..MaxRatings] : BagCount(m) <= MaxRatings}

\* The means k/20 halfway between two tenths whose nearest float lies above
\* them (1.05 is stored as 1.0500000000000000444); the floats of the other
\* halfway means that end in 5 (not in 25 or 75) lie below them.
FloatAbove == {21, 27, 31, 37, 47, 49, 57, 59, 67, 69, 77, 79, 83, 89, 93, 99}

\* round(sum / n, 1), in tenths: the tenth nearest to the float; a float
\* exactly halfway between two tenths (means ending in 25 or 75) goes to the
\* even tenth
Truncate1(sum, n) == (10 * sum) \div n

Round1(sum, n) ==
    LET q == (10 * sum) \div n
        r == (10 * sum) % n
        k == 2 * q + 1
    IN  IF 2 * r < n THEN q
        ELSE IF 2 * r > n THEN q + 1
        ELSE IF k % 10 = 5 THEN (IF q % 2 = 0 THEN q ELSE q + 1)
        ELSE IF k \in FloatAbove THEN q + 1
        ELSE q

\* Blog.average_rating, in tenths: Avg('score') is None without rows
average_rating(m) ==
    IF BagCount(m) = 0 THEN 0 ELSE Round1(BagSum(m), BagCount(m))

\* A template reads blog.average_rating of a post with the scores view.scores.
get_average_rating ==
    /\ view.op = "rated"
    /\ view' = [op |-> "average_rating", scores |-> view.scores,
                value |-> average_rating(view.scores)]
    /\ UNCHANGED <<blogs, blogRow, blogNextId, comments, commentNextId, likes,
                   dislikes, favorites, favNextId, ratings, last, req, start>>

\* ----------------------------------------- blog_detail: the comment list
\* Paginator(comments, 10)
CommentsPerPage == 10

\* the comments of the post, replies included
WithReplies(cs, pk) == {c \in cs : c.blog = pk}

\* Comment.objects.filter(blog=blog, parent_comment=None)
TopLevel(cs, pk) == {c \in cs : c.blog = pk /\ c.parent = NoParent}

\* order_by('-created_at'): comments are created in pk order
RECURSIVE NewestFirst(_)
NewestFirst(S) ==
    IF S = {} THEN <<>>
    ELSE LET c == CHOOSE x \in S : \A y \in S : y.id <= x.id
         IN  <<c>> \o NewestFirst(S \ {c})

\* Paginator.num_pages: an empty list has one (empty) page
NumPages(count) ==
    IF count = 0 THEN 1 ELSE (count + CommentsPerPage - 1) \div CommentsPerPage

\* comment_page of the query string: NotANumber when it is absent or no
\* integer, else the integer
PageParams == {NotANumber} \cup 0..(NumPages(MaxListed) + 1)

\* the page comment_paginator.page delivers: the first on PageNotAnInteger,
\* the last on EmptyPage (a number below 1 or above num_pages)
PageNumber(comment_page, count) ==
    IF comment_page = NotANumber THEN 1
    ELSE IF comment_page < 1 \/ comment_page > NumPages(count) THEN NumPages(count)
    ELSE comment_page

PageItems(list, number) ==
    LET bottom == (number - 1) * CommentsPerPage
        top == IF bottom + CommentsPerPage >= Len(list) THEN Len(list)
               ELSE bottom + CommentsPerPage
    IN  SubSeq(list, bottom + 1, top)

\* A GET of blog_detail: the comments of the page the template is given.
get_blog_detail(pk, comment_page) ==
    /\ view' = IF BlogDoesNotExist(pk)
               THEN [op |-> "blog_detail", pk |-> pk, page |-> comment_page,
                     status |-> 404, comments |-> <<>>]
               ELSE LET list == NewestFirst(TopLevel(comments, pk)) IN
                    [op |-> "blog_detail", pk |-> pk, page |-> comment_page,
                     status |-> 200,
                     comments |-> PageItems(list, PageNumber(comment_page, Len(list)))]
    /\ UNCHANGED <<blogs, blogRow, blogNextId, comments, commentNextId, likes,
                   dislikes, favorites, favNextId, ratings, last, req, start>>

\* ------------------------------------------------------------------ Init
\* No read has been made.
NoView == [op |-> "none"]

Init ==
    /\ blogs = 1..NumBlogs
    /\ blogRow = [pk \in PostIds |-> IF pk <= NumBlogs THEN FirstBlogRow ELSE NoBlogRow]
    /\ blogNextId = NumBlogs + 1
    /\ comments = {}
    /\ commentNextId = 1
    /\ likes = [p \in Pairs |-> 0]
    /\ dislikes = [p \in Pairs |-> 0]
    /\ favorites = {}
    /\ favNextId = 1
    /\ ratings = [p \in Pairs |-> <<>>]
    /\ last = NoRequest
    /\ req = [w \in Workers |-> Idle]
    /\ start = Tables
    /\ view = NoView

\* The store as Init has it, and a post whose Rating rows hold any scores.
InitAverage ==
    /\ blogs = 1..NumBlogs
    /\ blogRow = [pk \in PostIds |-> IF pk <= NumBlogs THEN FirstBlogRow ELSE NoBlogRow]
    /\ blogNextId = NumBlogs + 1
    /\ comments = {}
    /\ commentNextId = 1
    /\ likes = [p \in Pairs |-> 0]
    /\ dislikes = [p \in Pairs |-> 0]
    /\ favorites = {}
    /\ favNextId = 1
    /\ ratings = [p \in Pairs |-> <<>>]
    /\ last = NoRequest
    /\ req = [w \in Workers |-> Idle]
    /\ start = Tables
    /\ \E m \in ScoreBags : view = [op |-> "rated", scores |-> m]

\* Comment tables with up to MaxListed comments. The kind of the i-th
\* comment follows a pattern that repeats every four comments: a top-level
\* comment of post 1, a top-level comment of post 2, or a reply to the newest
\* top-level comment of post 1 written before it, made on post 1 ("reply")
\* or, as blog_detail also accepts, on post 2 ("cross").
Kinds == {"top", "other", "reply", "cross"}
Patterns == [0..3 -> Kinds]

KindOf(pattern, i) == pattern[i % 4]

ListedRows(pattern, n) ==
    LET tops(i) == {j \in 1..(i - 1) : KindOf(pattern, j) = "top"}
        newestTop(i) == CHOOSE j \in tops(i) : \A k \in tops(i) : k <= j
    IN  {CommentRow(i, 1, 1, NoParent) :
             i \in {j \in 1..n : KindOf(pattern, j) = "top"}}
        \cup {CommentRow(i, 2, 1, NoParent) :
             i \in {j \in 1..n : KindOf(pattern, j) = "other"}}
        \cup {CommentRow(i, 1, 1, newestTop(i)) :
             i \in {j \in 1..n : KindOf(pattern, j) = "reply" /\ tops(j) # {}}}
        \cup {CommentRow(i, 2, 1, newestTop(i)) :
             i \in {j \in 1..n : KindOf(pattern, j) = "cross" /\ tops(j) # {}}}

\* A store with posts 1 and 2 and one of these comment tables.
InitList ==
    /\ blogs = {1, 2}
    /\ blogRow = [pk \in PostIds |-> IF pk <= 2 THEN FirstBlogRow ELSE NoBlogRow]
    /\ blogNextId = 3
    /\ \E pattern \in Patterns, n \in 0..MaxListed :
          /\ comments = ListedRows(pattern, n)
          /\ commentNextId = n + 1
    /\ likes = [p \in Pairs |-> 0]
    /\ dislikes = [p \in Pairs |-> 0]
    /\ favorites = {}
    /\ favNextId = 1
    /\ ratings = [p \in Pairs |-> <<>>]
    /\ last = NoRequest
    /\ req = [w \in Workers |-> Idle]
    /\ start = Tables
    /\ view = NoView

\* --------------------------------------- sequential like/dislike requests
NextLike ==
    \E user \in Users \cup {Anonymous}, pk \in PostIds, reaction \in Reactions :
        like_dislike_post(user, pk, reaction)

SpecLike == Init /\ [][NextLike]_vars

\* A successfully handled like_dislike_post request with this reaction.
LastReaction(l, reaction) ==
    /\ l.op = "like_dislike_post"
    /\ l.status = 200
    /\ l.arg = reaction

\* C1: after any sequence of like_dislike_post requests handled one after
\* another, no (user, post) pair has both a Like row and a Dislike row: its
\* reaction state is none, liked or disliked.
C1_AtMostOneReaction ==
    \A p \in Pairs :
        /\ ~(RowExists(likes, p[1], p[2]) /\ RowExists(dislikes, p[1], p[2]))
        /\ ReactionState(likes, dislikes, p[1], p[2]) \in {"none", "liked", "disliked"}

\* C1 witness: a 'like' was handled for a pair that held a Dislike, while
\* the other user still dislikes the post.
C1_Witness ==
    /\ LastReaction(last, "like")
    /\ last.before.reaction = "disliked"
    /\ ReactionState(likes, dislikes, last.user, last.pk) = "liked"
    /\ \E u \in Users : ReactionState(likes, dislikes, u, last.pk) = "disliked"

\* C3: a 'like' request moves the pair none -> liked, liked -> none,
\* disliked -> liked; a 'dislike' request moves it none -> disliked,
\* disliked -> none, liked -> disliked; every other pair, and every pair
\* under any other request, keeps its state.
C3_Step ==
    \A p \in Pairs :
        LET s  == ReactionState(likes, dislikes, p[1], p[2])
            s2 == ReactionState(likes', dislikes', p[1], p[2])
            mine == last'.user = p[1] /\ last'.pk = p[2]
        IN  IF mine /\ LastReaction(last', "like")
            THEN <<s, s2>> \in {<<"none", "liked">>, <<"liked", "none">>,
                                <<"disliked", "liked">>}
            ELSE IF mine /\ LastReaction(last', "dislike")
            THEN <<s, s2>> \in {<<"none", "disliked">>, <<"disliked", "none">>,
                                <<"liked", "disliked">>}
            ELSE s2 = s

C3_Transitions == [][C3_Step]_vars

\* C3 witness: a 'dislike' has moved a pair from liked to disliked.
C3_Witness ==
    /\ LastReaction(last, "dislike")
    /\ last.before.reaction = "liked"
    /\ ReactionState(likes, dislikes, last.user, last.pk) = "disliked"

\* Two 'like' requests by the same user on the same post, one right after
\* the other, both handled successfully.
TwoLikes == LastReaction(last, "like") /\ last.twice

\* C4 as stated: two consecutive 'like' requests return the post to its
\* original like count and the pair to its original reaction state, whatever
\* that state was.
C4_Original ==
    TwoLikes =>
        /\ RowCount(likes, last.pk) = last.before2.likes
        /\ ReactionState(likes, dislikes, last.user, last.pk) = last.before2.reaction

\* C4 amended: two consecutive 'like' requests return the post to its
\* original like count; the pair returns to its original reaction state when
\* that was none or liked, and ends in none, its one Dislike row gone, when
\* it was disliked.
C4_Amended ==
    TwoLikes =>
        /\ RowCount(likes, last.pk) = last.before2.likes
        /\ last.before2.reaction \in {"none", "liked"} =>
              /\ ReactionState(likes, dislikes, last.user, last.pk)
                    = last.before2.reaction
              /\ RowCount(dislikes, last.pk) = last.before2.dislikes
        /\ last.before2.reaction = "disliked" =>
              /\ ReactionState(likes, dislikes, last.user, last.pk) = "none"
              /\ RowCount(dislikes, last.pk) = last.before2.dislikes - 1
        /\ last.before2.reaction \in {"none", "liked", "disliked"}

\* C4 witness: the two 'like' requests started from a disliked pair on a
\* post another user likes.
C4_Witness ==
    /\ TwoLikes
    /\ last.before2.reaction = "disliked"
    /\ last.before2.likes = 1

\* C5: a successful response carries the number of Like rows and of Dislike
\* rows of the post as they are after the request's mutation, and the
\* caller's resulting reaction.
C5_ResponseIsCurrent ==
    (last.op = "like_dislike_post" /\ last.status = 200) =>
        LET s == ReactionState(likes, dislikes, last.user, last.pk) IN
        /\ last.json.likes_count = RowCount(likes, last.pk)
        /\ last.json.dislikes_count = RowCount(dislikes, last.pk)
        /\ last.json.user_reaction = "like" <=> s = "liked"
        /\ last.json.user_reaction = "dislike" <=> s = "disliked"
        /\ last.json.user_reaction = "none" <=> s = "none"

\* C5 witness: a 'dislike' that replaced the caller's Like on a post the
\* other user likes: both counts differ from what they were.
C5_Witness ==
    /\ LastReaction(last, "dislike")
    /\ last.before.reaction = "liked"
    /\ last.before.likes = 2
    /\ last.json = [likes_count |-> 1, dislikes_count |-> 1, user_reaction |-> "dislike"]

\* C6: a request without an authenticated user is answered 403 and a request
\* of an authenticated user for a post that does not exist 404 (the
\* authentication check comes first), and neither creates or deletes a Like
\* or Dislike row.
C6_Step ==
    LET r == last' IN
    r.op = "like_dislike_post" =>
        /\ r.user = Anonymous =>
              /\ r.status = 403 /\ r.message = "Authentication required"
              /\ likes' = likes /\ dislikes' = dislikes
        /\ (r.user # Anonymous /\ r.pk \notin blogs) =>
              /\ r.status = 404 /\ r.message = "Blog post not found"
              /\ likes' = likes /\ dislikes' = dislikes

C6_Rejected == [][C6_Step]_vars

\* C6 witness: a 'like' for a post that does not exist was answered 404
\* while the store holds reactions.
C6_Witness ==
    /\ last.op = "like_dislike_post"
    /\ last.status = 404
    /\ last.user \in Users
    /\ last.arg = "like"
    /\ \E p \in Pairs : likes[p] > 0
    /\ \E p \in Pairs : dislikes[p] > 0

\* ----------------------------------------- sequential favorite requests
NextFav ==
    \E user \in Users \cup {Anonymous}, pk \in PostIds, mail_ok \in BOOLEAN :
        toggle_favorite(user, pk, mail_ok)

SpecFav == Init /\ [][NextFav]_vars

FavCount(u, b) == Cardinality(FavRows(favorites, u, b))

\* A toggle_favorite request of a logged-in user on an existing post that
\* ran to its redirect.
LastToggle ==
    /\ last.op = "toggle_favorite"
    /\ last.status = 302
    /\ last.user # Anonymous

\* C7: after any sequence of toggle_favorite requests handled one after
\* another there is at most one Favorite row per (user, post); a toggle on a
\* pair without a Favorite creates one, a toggle on a pair with a Favorite
\* removes it, and two consecutive toggles by one user on one post restore
\* the membership the pair started with.
C7_FavoriteToggle ==
    /\ \A p \in Pairs : FavCount(p[1], p[2]) <= 1
    /\ \A r \in favorites : r.user \in Users /\ r.blog \in blogs
    /\ LastToggle =>
          /\ last.before.favs = 0 =>
                /\ FavCount(last.user, last.pk) = 1
                /\ last.message = "Added to favorites!"
          /\ last.before.favs = 1 =>
                /\ FavCount(last.user, last.pk) = 0
                /\ last.message = "Removed from favorites."
          /\ last.before.favs \in {0, 1}
    /\ (LastToggle /\ last.twice) =>
          FavCount(last.user, last.pk) = last.before2.favs

\* C7 witness: two consecutive toggles on a pair that held a Favorite took
\* it away and brought it back, while the other user keeps a Favorite.
C7_Witness ==
    /\ LastToggle /\ last.twice
    /\ last.before2.favs = 1
    /\ FavCount(last.user, last.pk) = 1
    /\ \E u \in Users \ {last.user} : FavCount(u, last.pk) = 1

\* ------------------------------------------- sequential rating requests
NextRating ==
    \E user \in Users \cup {Anonymous}, pk \in PostIds, text \in ScoreTexts :
        blog_detail_rating(user, pk, text)

SpecRating == Init /\ [][NextRating]_vars

\* A rating submission that was accepted and saved.
LastRatingSaved ==
    /\ last.op = "blog_detail_rating"
    /\ last.status = 302

\* C10: after any sequence of rating submissions there is at most one Rating
\* row per (user, post), and after a valid submission by u on p that row
\* carries the score just submitted: a resubmission overwrites the row and
\* adds none.
C10_OneRatingLatestScore ==
    /\ \A p \in Pairs : Len(ratings[p]) <= 1
    /\ LastRatingSaved =>
          /\ Len(ratings[<<last.user, last.pk>>]) = 1
          /\ Str(ratings[<<last.user, last.pk>>][1]) = last.arg
          /\ Len(last.before.scores) <= 1

\* C10 witness: a score of 1 was resubmitted as 5.
C10_Witness ==
    /\ LastRatingSaved
    /\ last.before.scores = <<1>>
    /\ last.arg = "5"
    /\ ratings[<<last.user, last.pk>>] = <<5>>

\* ------------------------------------------- interleaved request handlers
\* Every ORM call of a handler is one statement that commits on its own; a
\* worker's step is one such call together with the handler code up to the
\* next call. Two requests begin together and run to their responses; the
\* next two begin when both are answered.
AllAnswered == \A w \in Workers : req[w].pc \in {"idle", "done"}

\* the response that ends a request, and the exception that ends it unhandled
Respond(r, status, message) ==
    [r EXCEPT !.pc = "done", !.status = status, !.message = message]

Raise(r, exc) == [r EXCEPT !.pc = "done", !.status = 500, !.exc = exc]

Step(w, r) == req' = [req EXCEPT ![w] = r]

\* like_dislike_post up to its first query: the authentication check
BeginLikeDislike(user, pk, reaction) ==
    LET r == [Idle EXCEPT !.op = "like_dislike_post", !.user = user, !.pk = pk,
                          !.arg = reaction]
    IN  IF user = Anonymous
        THEN Respond(r, 403, "Authentication required")
        ELSE [r EXCEPT !.pc = "get_blog"]

StartLikeDislike(u1, pk1, a1, u2, pk2, a2) ==
    /\ AllAnswered
    /\ req' = [w \in Workers |->
                 IF w = "w1" THEN BeginLikeDislike(u1, pk1, a1)
                 ELSE BeginLikeDislike(u2, pk2, a2)]
    /\ start' = Tables
    /\ UNCHANGED <<blogs, blogRow, blogNextId, comments, commentNextId,
                 likes, dislikes, favorites, favNextId, ratings, last, view>>

\* Blog.objects.get(pk=pk), then json.loads and the dispatch on the reaction
ld_get_blog(w) ==
    LET r == req[w] IN
    /\ r.op = "like_dislike_post" /\ r.pc = "get_blog"
    /\ Step(w, IF BlogDoesNotExist(r.pk) THEN Respond(r, 404, "Blog post not found")
               ELSE IF r.arg = Malformed THEN Raise(r, "JSONDecodeError")
               ELSE IF r.arg \in {"like", "dislike"} THEN [r EXCEPT !.pc = "exists_own"]
               ELSE [r EXCEPT !.pc = "count_likes"])
    /\ UNCHANGED <<blogs, blogRow, blogNextId, comments, commentNextId,
                 likes, dislikes, favorites, favNextId, ratings, last, start, view>>

\* the first exists(): like_exists under 'like', dislike_exists under 'dislike'
ld_exists_own(w) ==
    LET r == req[w] IN
    /\ r.op = "like_dislike_post" /\ r.pc = "exists_own"
    /\ Step(w, IF r.arg = "like"
               THEN [r EXCEPT !.pc = "exists_other",
                              !.like_exists = RowExists(likes, r.user, r.pk)]
               ELSE [r EXCEPT !.pc = "exists_other",
                              !.dislike_exists = RowExists(dislikes, r.user, r.pk)])
    /\ UNCHANGED <<blogs, blogRow, blogNextId, comments, commentNextId,
                 likes, dislikes, favorites, favNextId, ratings, last, start, view>>

\* the second exists(), and the branch on the first
ld_exists_other(w) ==
    LET r == req[w] IN
    /\ r.op = "like_dislike_post" /\ r.pc = "exists_other"
    /\ Step(w, IF r.arg = "like"
               THEN [r EXCEPT !.pc = IF r.like_exists THEN "delete_own" ELSE "create_own",
                              !.dislike_exists = RowExists(dislikes, r.user, r.pk)]
               ELSE [r EXCEPT !.pc = IF r.dislike_exists THEN "delete_own" ELSE "create_own",
                              !.like_exists = RowExists(likes, r.user, r.pk)])
    /\ UNCHANGED <<blogs, blogRow, blogNextId, comments, commentNextId,
                 likes, dislikes, favorites, favNextId, ratings, last, start, view>>

\* the reaction exists already: filter(...).delete() of the rows of its kind
ld_delete_own(w) ==
    LET r == req[w] IN
    /\ r.op = "like_dislike_post" /\ r.pc = "delete_own"
    /\ IF r.arg = "like"
       THEN likes' = RowFilterDelete(likes, r.user, r.pk) /\ UNCHANGED dislikes
       ELSE dislikes' = RowFilterDelete(dislikes, r.user, r.pk) /\ UNCHANGED likes
    /\ Step(w, [r EXCEPT !.pc = "count_likes"])
    /\ UNCHANGED <<blogs, blogRow, blogNextId, comments, commentNextId,
                 favorites, favNextId, ratings, last, start, view>>

\* objects.create(...): the INSERT, which nothing around it catches
ld_create_own(w) ==
    LET r == req[w]
        t == IF r.arg = "like" THEN likes ELSE dislikes
        other_exists == IF r.arg = "like" THEN r.dislike_exists ELSE r.like_exists
    IN
    /\ r.op = "like_dislike_post" /\ r.pc = "create_own"
    /\ IF UniqueViolation(t, r.user, r.pk)
       THEN /\ Step(w, Raise(r, "IntegrityError"))
            /\ UNCHANGED <<likes, dislikes>>
       ELSE /\ Step(w, [r EXCEPT !.pc = IF other_exists THEN "delete_other"
                                        ELSE "count_likes"])
            /\ IF r.arg = "like"
               THEN likes' = RowInsert(likes, r.user, r.pk) /\ UNCHANGED dislikes
               ELSE dislikes' = RowInsert(dislikes, r.user, r.pk) /\ UNCHANGED likes
    /\ UNCHANGED <<blogs, blogRow, blogNextId, comments, commentNextId,
                 favorites, favNextId, ratings, last, start, view>>

\* the opposite reaction was seen: filter(...).delete() of its rows
ld_delete_other(w) ==
    LET r == req[w] IN
    /\ r.op = "like_dislike_post" /\ r.pc = "delete_other"
    /\ IF r.arg = "like"
       THEN dislikes' = RowFilterDelete(dislikes, r.user, r.pk) /\ UNCHANGED likes
       ELSE likes' = RowFilterDelete(likes, r.user, r.pk) /\ UNCHANGED dislikes
    /\ Step(w, [r EXCEPT !.pc = "count_likes"])
    /\ UNCHANGED <<blogs, blogRow, blogNextId, comments, commentNextId,
                 favorites, favNextId, ratings, last, start, view>>

\* likes_count = blog.like_set.count()
ld_count_likes(w) ==
    LET r == req[w] IN
    /\ r.op = "like_dislike_post" /\ r.pc = "count_likes"
    /\ Step(w, [r EXCEPT !.pc = "count_dislikes",
                         !.json.likes_count = RowCount(likes, r.pk)])
    /\ UNCHANGED <<blogs, blogRow, blogNextId, comments, commentNextId,
                 likes, dislikes, favorites, favNextId, ratings, last, start, view>>

\* dislikes_count = blog.dislike_set.count()
ld_count_dislikes(w) ==
    LET r == req[w] IN
    /\ r.op = "like_dislike_post" /\ r.pc = "count_dislikes"
    /\ Step(w, [r EXCEPT !.pc = "reaction_like",
                         !.json.dislikes_count = RowCount(dislikes, r.pk)])
    /\ UNCHANGED <<blogs, blogRow, blogNextId, comments, commentNextId,
                 likes, dislikes, favorites, favNextId, ratings, last, start, view>>

\* if Like...exists(): user_reaction = 'like', and the response
ld_reaction_like(w) ==
    LET r == req[w] IN
    /\ r.op = "like_dislike_post" /\ r.pc = "reaction_like"
    /\ Step(w, IF RowExists(likes, r.user, r.pk)
               THEN Respond([r EXCEPT !.json.user_reaction = "like"], 200, "")
               ELSE [r EXCEPT !.pc = "reaction_dislike"])
    /\ UNCHANGED <<blogs, blogRow, blogNextId, comments, commentNextId,
                 likes, dislikes, favorites, favNextId, ratings, last, start, view>>

\* elif Dislike...exists(): user_reaction = 'dislike', else None; the response
ld_reaction_dislike(w) ==
    LET r == req[w] IN
    /\ r.op = "like_dislike_post" /\ r.pc = "reaction_dislike"
    /\ Step(w, IF RowExists(dislikes, r.user, r.pk)
               THEN Respond([r EXCEPT !.json.user_reaction = "dislike"], 200, "")
               ELSE Respond([r EXCEPT !.json.user_reaction = "none"], 200, ""))
    /\ UNCHANGED <<blogs, blogRow, blogNextId, comments, commentNextId,
                 likes, dislikes, favorites, favNextId, ratings, last, start, view>>

NextLikeRace ==
    \/ \E u1 \in Users \cup {Anonymous}, pk1 \in PostIds, a1 \in Reactions,
          u2 \in Users \cup {Anonymous}, pk2 \in PostIds, a2 \in Reactions :
          StartLikeDislike(u1, pk1, a1, u2, pk2, a2)
    \/ \E w \in Workers :
          \/ ld_get_blog(w)
          \/ ld_exists_own(w)
          \/ ld_exists_other(w)
          \/ ld_delete_own(w)
          \/ ld_create_own(w)
          \/ ld_delete_other(w)
          \/ ld_count_likes(w)
          \/ ld_count_dislikes(w)
          \/ ld_reaction_like(w)
          \/ ld_reaction_dislike(w)

SpecLikeRace == Init /\ [][NextLikeRace]_vars

\* C2: when two like_dislike_post requests for one (user, post) interleave
\* at their store reads and writes, no pair holds both a Like row and a
\* Dislike row once both requests are answered.
C2_NoBothAfterRace ==
    AllAnswered =>
        \A p \in Pairs :
            ~(RowExists(likes, p[1], p[2]) /\ RowExists(dislikes, p[1], p[2]))

\* C9: when two requests race to create the same Like (or Dislike), the one
\* that loses the uniqueness check completes as if already in the desired
\* state: no request ends in an unhandled IntegrityError, and the pair has
\* exactly one row of that kind afterwards.
C9_ConflictIsNoFailure ==
    \A w \in Workers :
        LET r == req[w] IN
        (r.op = "like_dislike_post" /\ r.pc = "done" /\ r.user # Anonymous
            /\ r.pk \in blogs /\ r.arg \in {"like", "dislike"}) =>
            /\ r.exc # "IntegrityError"
            /\ r.status = 200

\* ------------------------------------------ interleaved toggle_favorite
\* toggle_favorite up to its first query: login_required
BeginFavorite(user, pk) ==
    LET r == [Idle EXCEPT !.op = "toggle_favorite", !.user = user, !.pk = pk] IN
    IF user = Anonymous
    THEN Respond(r, 302, "login")
    ELSE [r EXCEPT !.pc = "get_blog"]

StartFavorites(u1, pk1, u2, pk2) ==
    /\ AllAnswered
    /\ req' = [w \in Workers |->
                 IF w = "w1" THEN BeginFavorite(u1, pk1) ELSE BeginFavorite(u2, pk2)]
    /\ start' = Tables
    /\ UNCHANGED <<blogs, blogRow, blogNextId, comments, commentNextId,
                 likes, dislikes, favorites, favNextId, ratings, last, view>>

\* get_object_or_404(Blog, pk=pk)
tf_get_blog(w) ==
    LET r == req[w] IN
    /\ r.op = "toggle_favorite" /\ r.pc = "get_blog"
    /\ Step(w, IF BlogDoesNotExist(r.pk) THEN Respond(r, 404, "")
               ELSE [r EXCEPT !.pc = "get"])
    /\ UNCHANGED <<blogs, blogRow, blogNextId, comments, commentNextId,
                 likes, dislikes, favorites, favNextId, ratings, last, start, view>>

\* get_or_create: the get
tf_get(w) ==
    LET r == req[w]
        got == FavGet(favorites, r.user, r.pk)
    IN
    /\ r.op = "toggle_favorite" /\ r.pc = "get"
    /\ Step(w, IF got.exc = ""
               THEN [r EXCEPT !.pc = "delete", !.favorite = got.id, !.created = FALSE]
               ELSE IF got.exc = "DoesNotExist" THEN [r EXCEPT !.pc = "create"]
               ELSE Raise(r, got.exc))
    /\ UNCHANGED <<blogs, blogRow, blogNextId, comments, commentNextId,
                 likes, dislikes, favorites, favNextId, ratings, last, start, view>>

\* get_or_create: the create after DoesNotExist, taken only while the pk
\* sequence is within MaxFavId
tf_create(w) ==
    LET r == req[w] IN
    /\ r.op = "toggle_favorite" /\ r.pc = "create"
    /\ IF FavUniqueViolation(favorites, r.user, r.pk)
       THEN /\ Step(w, [r EXCEPT !.pc = "get_again"])
            /\ UNCHANGED <<favorites, favNextId>>
       ELSE /\ favNextId <= MaxFavId
            /\ favorites' = FavInsert(favorites, favNextId, r.user, r.pk)
            /\ favNextId' = favNextId + 1
            /\ Step(w, [r EXCEPT !.pc = "send_mail", !.favorite = favNextId,
                                 !.created = TRUE])
    /\ UNCHANGED <<blogs, blogRow, blogNextId, comments, commentNextId,
                 likes, dislikes, ratings, last, start, view>>

\* get_or_create: the get after IntegrityError, which is re-raised when the
\* row is gone again
tf_get_again(w) ==
    LET r == req[w]
        got == FavGet(favorites, r.user, r.pk)
    IN
    /\ r.op = "toggle_favorite" /\ r.pc = "get_again"
    /\ Step(w, IF got.exc = ""
               THEN [r EXCEPT !.pc = "delete", !.favorite = got.id, !.created = FALSE]
               ELSE Raise(r, "IntegrityError"))
    /\ UNCHANGED <<blogs, blogRow, blogNextId, comments, commentNextId,
                 likes, dislikes, favorites, favNextId, ratings, last, start, view>>

\* not created: favorite.delete(), and the redirect
tf_delete(w) ==
    LET r == req[w] IN
    /\ r.op = "toggle_favorite" /\ r.pc = "delete"
    /\ favorites' = FavDeleteInstance(favorites, r.favorite)
    /\ Step(w, Respond(r, 302, "Removed from favorites."))
    /\ UNCHANGED <<blogs, blogRow, blogNextId, comments, commentNextId,
                 likes, dislikes, favNextId, ratings, last, start, view>>

\* created: send_mail, whose failure becomes a warning, and the redirect
tf_send_mail(w, mail_ok) ==
    LET r == req[w] IN
    /\ r.op = "toggle_favorite" /\ r.pc = "send_mail"
    /\ Step(w, Respond([r EXCEPT !.warning = ~mail_ok], 302, "Added to favorites!"))
    /\ UNCHANGED <<blogs, blogRow, blogNextId, comments, commentNextId,
                 likes, dislikes, favorites, favNextId, ratings, last, start, view>>

NextFavRace ==
    \/ \E u1 \in Users \cup {Anonymous}, pk1 \in PostIds,
          u2 \in Users \cup {Anonymous}, pk2 \in PostIds :
          StartFavorites(u1, pk1, u2, pk2)
    \/ \E w \in Workers :
          \/ tf_get_blog(w)
          \/ tf_get(w)
          \/ tf_create(w)
          \/ tf_get_again(w)
          \/ tf_delete(w)
          \/ \E mail_ok \in BOOLEAN : tf_send_mail(w, mail_ok)

SpecFavRace == Init /\ [][NextFavRace]_vars

\* The (user, post) pairs that hold a Favorite in table f.
Membership(f) == {<<r.user, r.blog>> : r \in f}

\* The membership after the two requests in flight are handled one after the
\* other, first then second, from the tables they began with.
AfterBoth(first, second) ==
    LET t1 == FavoriteToggled(start.favorites, start.favNextId, first.user, first.pk)
        t2 == FavoriteToggled(t1.favorites, t1.nextId, second.user, second.pk)
    IN  Membership(t2.favorites)

\* C8: when two toggle_favorite requests of one user on one post interleave
\* at their store operations, the pair never has more than one Favorite row,
\* neither request ends in an unhandled failure, and once both are answered
\* the membership is the one that handling them in one of the two
\* sequential orders gives.
C8_FavoriteRace ==
    LET a == req["w1"]
        b == req["w2"]
        same == /\ a.op = "toggle_favorite" /\ b.op = "toggle_favorite"
                /\ a.user = b.user /\ a.pk = b.pk
                /\ a.user # Anonymous /\ a.pk \in blogs
    IN  same =>
          /\ FavCount(a.user, a.pk) <= 1
          /\ a.exc = "" /\ b.exc = ""
          /\ AllAnswered =>
                Membership(favorites) \in {AfterBoth(a, b), AfterBoth(b, a)}

\* C11: a rating submission whose score is not an integer in 1..5 is not
\* saved and leaves the Rating rows as they were, so every Rating row has a
\* score in 1..5.
C11_Step ==
    /\ \A p \in Pairs : \A i \in 1..Len(ratings'[p]) : ratings'[p][i] \in 1..5
    /\ (last'.op = "blog_detail_rating"
           /\ last'.arg \notin {"1", "2", "3", "4", "5"}) =>
          /\ ratings' = ratings
          /\ last'.status # 302
          /\ last'.message # "Your rating has been saved!"

C11_InvalidScoreRejected == [][C11_Step]_vars

\* C11 witness: a logged-in user who rated the post 5 submitted 6; the form
\* was shown again and the row still carries 5.
C11_Witness ==
    /\ last.op = "blog_detail_rating"
    /\ last.user \in Users /\ last.pk \in blogs
    /\ last.arg = "6"
    /\ last.status = 200
    /\ last.before.scores = <<5>>
    /\ ratings[<<last.user, last.pk>>] = <<5>>

\* ------------------------------------------- sequential comment requests
\* Comment submissions on the posts of the store; blog_create gives the
\* store its second post.
NextComment ==
    \/ \E user \in Users \cup {Anonymous}, pk \in PostIds, content \in Contents,
          parent_comment_id \in ParentIds \cup {NotANumber} :
           blog_detail_comment(user, pk, content, parent_comment_id)
    \/ \E user \in Users \cup {Anonymous}, method \in Methods, form \in BlogForms :
           blog_create(user, method, form)

SpecComment == Init /\ [][NextComment]_vars

\* The comment submission handled in this step names, as its parent, a
\* comment that exists on another post than the one commented on.
ParentOnOtherPost ==
    /\ last'.op = "blog_detail_comment"
    /\ last'.user # Anonymous
    /\ last'.pk \in blogs
    /\ last'.arg.content # ""
    /\ \E c \in comments : c.id = last'.arg.parent /\ c.blog # last'.pk

\* C12: a comment submission whose parent_comment_id names a comment of
\* another post is rejected and creates no Comment row, and so every comment
\* that has a parent is on the same post as its parent.
C12_Step ==
    /\ ParentOnOtherPost =>
          /\ comments' = comments
          /\ last'.message # "Your comment has been posted!"
    /\ \A c \in comments' : c.parent # NoParent =>
          \A d \in comments' : d.id = c.parent => d.blog = c.blog

C12_ParentOnSamePost == [][C12_Step]_vars

\* ------------------------------- sequential engagement and delete requests
\* the posts the store starts with; once deleted their pks name no post
FirstPosts == 1..NumBlogs

\* Reactions, favorites, ratings and comments on a post, and its deletion.
NextEngage ==
    \/ \E user \in Users \cup {Anonymous}, pk \in FirstPosts,
          reaction \in {"like", "dislike"} :
           like_dislike_post(user, pk, reaction)
    \/ \E user \in Users \cup {Anonymous}, pk \in FirstPosts :
           toggle_favorite(user, pk, TRUE)
    \/ \E user \in Users \cup {Anonymous}, pk \in FirstPosts :
           blog_detail_rating(user, pk, "5")
    \/ \E user \in Users \cup {Anonymous}, pk \in FirstPosts,
          parent_comment_id \in ParentIds :
           blog_detail_comment(user, pk, "text", parent_comment_id)
    \/ \E user \in Users \cup {Anonymous}, pk \in FirstPosts :
           blog_delete(user, pk, "POST")

SpecEngage == Init /\ [][NextEngage]_vars

\* The request handled last was a blog_delete that deleted the post.
LastDeleted ==
    /\ last.op = "blog_delete"
    /\ last.message = "Blog deleted successfully!"

\* C13: right after blog_delete has deleted a post, the post is gone and no
\* Comment (top-level or reply), Rating, Like, Dislike or Favorite row of
\* that post is left: the count of each kind for the post is zero.
C13_DeleteCascades ==
    LastDeleted =>
        /\ last.pk \notin blogs
        /\ RowCount(likes, last.pk) = 0
        /\ RowCount(dislikes, last.pk) = 0
        /\ {r \in favorites : r.blog = last.pk} = {}
        /\ \A u \in Users : RatingRows(ratings, u, last.pk) = <<>>
        /\ {c \in comments : c.blog = last.pk} = {}

\* C13 witness: the deleted post had a Like, a Dislike, a Favorite, a Rating,
\* a top-level comment and a reply to it when the delete request arrived.
C13_Witness ==
    /\ LastDeleted
    /\ last.before.likes > 0 /\ last.before.dislikes > 0
    /\ last.before.favs > 0 /\ last.before.scores # <<>>
    /\ \E c, d \in last.before.comments : c.parent = NoParent /\ d.parent = c.id
    /\ comments = {} /\ favorites = {}

\* The request handled in this step carried the authenticated user u and
\* named the post b, which existed when the request arrived.
RequestBy(u, b) ==
    /\ u \in Users /\ last'.user = u
    /\ last'.pk = b /\ b \in blogs

\* C14: every Rating, Like, Dislike, Favorite and Comment row that a step
\* creates is owned by the authenticated user of the request handled in
\* that step and refers to the post the request named, which existed; a
\* request without an authenticated user creates no row of any kind.
C14_Step ==
    /\ \A p \in Pairs :
          /\ likes'[p] > likes[p] => RequestBy(p[1], p[2])
          /\ dislikes'[p] > dislikes[p] => RequestBy(p[1], p[2])
          /\ Len(ratings'[p]) > Len(ratings[p]) => RequestBy(p[1], p[2])
    /\ \A r \in favorites' \ favorites : RequestBy(r.user, r.blog)
    /\ \A c \in comments' \ comments : RequestBy(c.user, c.blog)
    /\ last'.user = Anonymous =>
          /\ \A p \in Pairs : /\ likes'[p] <= likes[p]
                              /\ dislikes'[p] <= dislikes[p]
                              /\ Len(ratings'[p]) <= Len(ratings[p])
          /\ favorites' \subseteq favorites
          /\ comments' \subseteq comments

C14_CreatedByAuthenticatedUser == [][C14_Step]_vars

\* C14 witness: user 2, who did not write post 1, has just posted a comment
\* on it that is theirs, and the post holds rows of all five kinds.
C14_Witness ==
    /\ last.op = "blog_detail_comment"
    /\ last.message = "Your comment has been posted!"
    /\ last.user = 2 /\ last.pk = 1 /\ blogRow[1].author = 1
    /\ \E c \in comments \ last.before.comments : c.user = 2 /\ c.blog = 1
    /\ RowCount(likes, 1) > 0 /\ RowCount(dislikes, 1) > 0
    /\ favorites # {}
    /\ \E u \in Users : RatingRows(ratings, u, 1) # <<>>

\* ------------------------------------------ sequential post management
NextPosts ==
    \/ \E user \in Users \cup {Anonymous}, method \in Methods, form \in BlogForms :
           blog_create(user, method, form)
    \/ \E user \in Users \cup {Anonymous}, pk \in PostIds, method \in Methods,
          form \in BlogForms :
           blog_update(user, pk, method, form)
    \/ \E user \in Users \cup {Anonymous}, pk \in PostIds, method \in Methods :
           blog_delete(user, pk, method)
    \/ \E user \in Users \cup {Anonymous}, pk \in PostIds, method \in Methods :
           publish_post(user, pk, method)
    \/ \E user \in Users \cup {Anonymous}, pk \in PostIds, method \in Methods :
           unpublish_post(user, pk, method)

SpecPosts == Init /\ [][NextPosts]_vars

ManageOps == {"blog_update", "blog_delete", "publish_post", "unpublish_post"}

\* C15: blog_update, blog_delete, publish_post and unpublish_post change or
\* remove a post only when the requesting user is the post's author or a
\* staff member, and then only the post the request names; a request from
\* any other user, or for a post that does not exist, leaves every post as
\* it was.
C15_Step ==
    last'.op \in ManageOps =>
        /\ \A pk \in PostIds :
              (pk \in blogs /\ (pk \notin blogs' \/ blogRow'[pk] # blogRow[pk])) =>
                  /\ last'.pk = pk
                  /\ last'.user \in Users
                  /\ last'.user = blogRow[pk].author \/ last'.user \in Staff
        /\ (\/ last'.pk \notin blogs
            \/ last'.user = Anonymous
            \/ (last'.user # blogRow[last'.pk].author /\ last'.user \notin Staff)) =>
              /\ blogs' = blogs
              /\ blogRow' = blogRow
        /\ blogs' \subseteq blogs

C15_OnlyAuthorOrStaff == [][C15_Step]_vars

\* C15 witness: the author (who is not staff) has just been refused the
\* deletion of a post that a staff member wrote, and the post is as it was.
C15_Witness ==
    /\ last.op = "blog_delete"
    /\ last.arg = "POST"
    /\ last.user \in Users \ Staff
    /\ last.pk \in blogs
    /\ blogRow[last.pk].author \in Staff
    /\ blogRow[last.pk].author # last.user
    /\ last.message = "You can only edit or delete your own blogs."

\* ------------------------------ engagement on posts that go public or not
\* Reactions, favorites, ratings and comments by the registered users on the
\* posts of the store, which their author or the staff member publishes and
\* unpublishes.
NextAuthor ==
    \/ \E user \in Users, pk \in FirstPosts, reaction \in {"like", "dislike"} :
           like_dislike_post(user, pk, reaction)
    \/ \E user \in Users, pk \in FirstPosts : toggle_favorite(user, pk, TRUE)
    \/ \E user \in Users, pk \in FirstPosts : blog_detail_rating(user, pk, "5")
    \/ \E user \in Users, pk \in FirstPosts, parent_comment_id \in ParentIds :
           blog_detail_comment(user, pk, "text", parent_comment_id)
    \/ \E user \in Users, pk \in FirstPosts : publish_post(user, pk, "POST")
    \/ \E user \in Users, pk \in FirstPosts : unpublish_post(user, pk, "POST")

SpecAuthor == Init /\ [][NextAuthor]_vars

\* The store without the engagement rows of the posts that are not published.
Stripped(s) ==
    [s EXCEPT
        !.likes = [p \in Pairs |-> IF p[2] \in Published(s) THEN @[p] ELSE 0],
        !.dislikes = [p \in Pairs |-> IF p[2] \in Published(s) THEN @[p] ELSE 0],
        !.favorites = {r \in @ : r.blog \in Published(s)},
        !.ratings = [p \in Pairs |-> IF p[2] \in Published(s) THEN @[p] ELSE <<>>],
        !.comments = {c \in @ : c.blog \in Published(s)}]

\* C16: a post that is not published is in no public blog list, recent-posts
\* sidebar or author page, and the per-author totals of author_list and
\* author_detail are what they would be without the likes, dislikes,
\* favorites, comments and ratings of the unpublished posts.
C16_UnpublishedHidden ==
    /\ \A b \in blogs : ~blogRow[b].published =>
          /\ b \notin blog_list(Store).blogs
          /\ b \notin blog_list(Store).recent_blogs
          /\ \A a \in Authors : b \notin DOMAIN author_detail(Store, a).blogs
    /\ \A a \in Authors : author_detail(Store, a) = author_detail(Stripped(Store), a)
    /\ author_list(Store) = author_list(Stripped(Store))

\* C16 witness: a post that was public has just been unpublished while it
\* holds rows of all five kinds; its author's totals are all zero.
C16_Witness ==
    /\ last.op = "unpublish_post"
    /\ last.message = "Blog unpublished successfully!"
    /\ last.pk \in blogs /\ ~blogRow[last.pk].published
    /\ LikeRows(Store, last.pk) > 0 /\ DislikeRows(Store, last.pk) > 0
    /\ FavoriteRows(Store, last.pk) > 0 /\ CommentRows(Store, last.pk) > 0
    /\ RatingCount(Store, last.pk) > 0
    /\ AuthorPosts(Stripped(Store), blogRow[last.pk].author) = {}
    /\ author_detail(Store, blogRow[last.pk].author).total_likes = 0
    /\ author_list(Store)[blogRow[last.pk].author].total_likes = 0

\* C17: for every published post of an author, the four counts author_detail
\* annotates the post with are the numbers of Like, Dislike, Favorite and
\* Comment rows of the post, and the author's four totals are the sums of
\* those numbers over the author's published posts.
C17_ExactCounts ==
    \A a \in Authors :
        LET posts == AuthorPosts(Store, a)
            page == author_detail(Store, a)
        IN  /\ \A b \in posts :
                  /\ page.blogs[b].like_count = LikeRows(Store, b)
                  /\ page.blogs[b].dislike_count = DislikeRows(Store, b)
                  /\ page.blogs[b].favorite_count = FavoriteRows(Store, b)
                  /\ page.blogs[b].comment_count = CommentRows(Store, b)
            /\ page.total_likes =
                   SumOver(posts, [b \in posts |-> LikeRows(Store, b)])
            /\ page.total_dislikes =
                   SumOver(posts, [b \in posts |-> DislikeRows(Store, b)])
            /\ page.total_favorites =
                   SumOver(posts, [b \in posts |-> FavoriteRows(Store, b)])
            /\ page.total_comments =
                   SumOver(posts, [b \in posts |-> CommentRows(Store, b)])

\* C18: toggle_favorite leaves every Like and Dislike row as it was and
\* like_dislike_post leaves every Favorite row as it was; a handled toggle
\* flips the pair's favorite membership whatever the pair's reaction is.
C18_Step ==
    /\ last'.op = "toggle_favorite" =>
          /\ likes' = likes /\ dislikes' = dislikes
          /\ (last'.status = 302 /\ last'.user \in Users /\ last'.pk \in blogs) =>
                Cardinality(FavRows(favorites', last'.user, last'.pk)) =
                    1 - Cardinality(FavRows(favorites, last'.user, last'.pk))
    /\ last'.op = "like_dislike_post" =>
          /\ favorites' = favorites
          /\ favNextId' = favNextId

C18_FavoriteAndReactionApart == [][C18_Step]_vars

\* C18 witness: a user who likes the post has just added it to their
\* favorites and still likes it, while another pair holds a Dislike.
C18_Witness ==
    /\ last.op = "toggle_favorite"
    /\ last.message = "Added to favorites!"
    /\ last.before.reaction = "liked" /\ last.before.favs = 0
    /\ ReactionState(likes, dislikes, last.user, last.pk) = "liked"
    /\ FavRows(favorites, last.user, last.pk) # {}
    /\ RowCount(dislikes, last.pk) > 0

\* C19: a toggle_favorite request that finds no Favorite of the pair adds
\* one and completes normally whether or not the confirmation mail is sent;
\* when the mail fails the row stays and the response only carries a warning.
C19_Step ==
    LET rowsBefore == FavRows(favorites, last'.user, last'.pk)
        rowsAfter == FavRows(favorites', last'.user, last'.pk)
    IN  last'.op = "toggle_favorite" =>
            /\ (last'.user \in Users /\ last'.pk \in blogs /\ rowsBefore = {}) =>
                  /\ Cardinality(rowsAfter) = 1
                  /\ last'.status = 302 /\ last'.exc = ""
                  /\ last'.message = "Added to favorites!"
            /\ last'.warning =>
                  /\ rowsBefore = {} /\ Cardinality(rowsAfter) = 1
                  /\ last'.status = 302

C19_MailFailureKeepsFavorite == [][C19_Step]_vars

\* C19 witness: a favorite has just been added, the mail failed, and the
\* row is in the store.
C19_Witness ==
    /\ last.op = "toggle_favorite"
    /\ last.warning
    /\ last.status = 302
    /\ last.before.favs = 0
    /\ Cardinality(FavRows(favorites, last.user, last.pk)) = 1

\* The ids met when following parent_comment from comment c, at most fuel
\* times.
RECURSIVE AncestorIds(_, _, _)
AncestorIds(cs, c, fuel) ==
    IF fuel = 0 \/ c.parent = NoParent \/ ~CommentExists(cs, c.parent) THEN {}
    ELSE {c.parent} \cup AncestorIds(cs, CommentGet(cs, c.parent), fuel - 1)

\* C20: the parent relation of the comments is acyclic, no comment being its
\* own ancestor: a step leaves the parent of every comment as it is, and the
\* parent of a comment it creates is none or a comment that existed before.
C20_Step ==
    /\ \A c \in comments' : c.id \notin AncestorIds(comments', c, Cardinality(comments'))
    /\ \A c \in comments : c \in comments'
    /\ \A c \in comments' \ comments :
          /\ ~CommentExists(comments, c.id)
          /\ c.parent = NoParent \/ CommentExists(comments, c.parent)

C20_ParentsAcyclic == [][C20_Step]_vars

\* C20 witness: a reply has just been posted: the newest comment's parent
\* is an older comment that has no parent, its only ancestor.
C20_Witness ==
    /\ last.op = "blog_detail_comment"
    /\ last.message = "Your comment has been posted!"
    /\ last.arg.parent # NoParent
    /\ \E c, d \in comments :
          /\ c.parent = d.id /\ d.id < c.id /\ d.parent = NoParent
          /\ c.id = commentNextId - 1
          /\ AncestorIds(comments, c, Cardinality(comments)) = {d.id}

\* The comment submission handled in this step names a parent that is no
\* comment of the store.
ParentMissing ==
    /\ last'.op = "blog_detail_comment"
    /\ last'.pk \in blogs
    /\ last'.arg.parent # NoParent
    /\ \A c \in comments : c.id # last'.arg.parent

\* C21: a comment submission whose parent_comment_id names no existing
\* comment creates no Comment row and is answered with an error: 'Invalid
\* comment to reply to.' when the form is valid, the user is authenticated
\* and the id is a number.
C21_Step ==
    ParentMissing =>
        /\ comments' = comments
        /\ commentNextId' = commentNextId
        /\ last'.message # "Your comment has been posted!"
        /\ last'.message # "" \/ last'.exc # ""
        /\ (/\ last'.user \in Users
            /\ last'.arg.content # ""
            /\ last'.arg.parent # NotANumber) =>
              /\ last'.message = "Invalid comment to reply to."
              /\ last'.status = 302

C21_MissingParentRejected == [][C21_Step]_vars

\* C21 witness: a reply naming comment 2 has just been refused while
\* comment 1 is the only comment of the store.
C21_Witness ==
    /\ last.op = "blog_detail_comment"
    /\ last.message = "Invalid comment to reply to."
    /\ last.arg.parent = 2
    /\ Cardinality(comments) = 1
    /\ \A c \in comments : c.id = 1
    /\ commentNextId = 2

\* ---------------------------------------------- reads of average_rating
SpecAverage == InitAverage /\ [][get_average_rating]_vars

\* C22: average_rating is 0 for a post without Rating rows and otherwise
\* the mean of the scores rounded to one decimal place: the tenth nearest to
\* the mean, the even one of the two when the mean lies exactly halfway and
\* ends in 25 or 75. Scores 2, 4, 5 give 3.7. Values are in tenths.
C22_AverageRating ==
    view.op = "average_rating" =>
        LET n == BagCount(view.scores)
            sum == BagSum(view.scores)
            t == view.value
        IN  /\ n = 0 => t = 0
            /\ n > 0 =>
                  /\ t \in 10 * MinScore .. 10 * MaxScore
                  /\ 2 * (t * n - 10 * sum) <= n
                  /\ 2 * (10 * sum - t * n) <= n
                  /\ (/\ 2 * (10 * sum - t * n) \in {n, -n}
                      /\ (4 * sum) % n = 0) => t % 2 = 0
            /\ view.scores = [s \in MinScore..MaxScore |->
                                 IF s \in {2, 4, 5} THEN 1 ELSE 0] => t = 37

\* C22 witness: average_rating of a post rated 2, 4 and 5 has been read and
\* was 3.7.
C22_Witness ==
    /\ view.op = "average_rating"
    /\ view.scores = [s \in MinScore..MaxScore |-> IF s \in {2, 4, 5} THEN 1 ELSE 0]
    /\ view.value = 37

\* ------------------------------------------------- reads of blog_detail
NextList ==
    \E pk \in {1, 2, 3}, comment_page \in PageParams : get_blog_detail(pk, comment_page)

SpecList == InitList /\ [][NextList]_vars

\* C23: the comment list blog_detail builds for a post holds comments of
\* that post that have no parent and nothing else, newest first; page k
\* holds those with at least 10 (k - 1) and fewer than 10 k newer top-level
\* comments of the post, so the pages together hold each of them once.
C23_CommentList ==
    (view.op = "blog_detail" /\ view.status = 200) =>
        LET top == {c \in comments : c.blog = view.pk /\ c.parent = NoParent}
            newer(c) == Cardinality({d \in top : d.id > c.id})
            pages == IF top = {} THEN 1 ELSE (Cardinality(top) + 9) \div 10
            k == IF view.page \in 1..pages THEN view.page
                 ELSE IF view.page = NotANumber THEN 1 ELSE pages
            shown == {view.comments[i] : i \in 1..Len(view.comments)}
        IN  /\ shown = {c \in top : newer(c) >= 10 * (k - 1) /\ newer(c) < 10 * k}
            /\ Len(view.comments) = Cardinality(shown)
            /\ Len(view.comments) <= 10
            /\ \A i \in 1..(Len(view.comments) - 1) :
                  view.comments[i].id > view.comments[i + 1].id

\* C23 witness: post 1 has more than ten top-level comments, replies, and
\* post 2 has comments; the second page of post 1 has been read and holds
\* the oldest top-level comment of the post.
C23_Witness ==
    /\ view.op = "blog_detail" /\ view.status = 200
    /\ view.pk = 1 /\ view.page = 2
    /\ Cardinality({c \in comments : c.blog = 1 /\ c.parent = NoParent}) > 10
    /\ \E c \in comments : c.blog = 1 /\ c.parent # NoParent
    /\ \E c \in comments : c.blog = 2
    /\ Len(view.comments) \in 1..9
    /\ view.comments[Len(view.comments)].id = 1

\* ----------------------------------- two posts: engagement and deletion
\* The author (user 1) writes a second post, comments on, reacts to,
\* favorites and rates both posts; the author or the staff user deletes
\* them.
NextFrame ==
    \/ \E title \in {"b"} :
           blog_create(1, "POST", [title |-> title, published |-> TRUE])
    \/ \E pk \in PostIds, parent_comment_id \in ParentIds :
           blog_detail_comment(1, pk, "text", parent_comment_id)
    \/ \E pk \in PostIds, reaction \in {"like", "dislike"} :
           like_dislike_post(1, pk, reaction)
    \/ \E pk \in PostIds : toggle_favorite(1, pk, TRUE)
    \/ \E pk \in PostIds : blog_detail_rating(1, pk, "5")
    \/ \E user \in Users, pk \in PostIds : blog_delete(user, pk, "POST")

SpecFrame == Init /\ [][NextFrame]_vars

\* This step is a blog_delete that deleted the post it names.
DeletedNow ==
    /\ last'.op = "blog_delete"
    /\ last'.message = "Blog deleted successfully!"
    /\ last'.pk \in blogs
    /\ last'.pk \notin blogs'

\* C24: a blog_delete that deletes post p leaves every Comment, Rating,
\* Like, Dislike and Favorite row attached to any other post unchanged,
\* whatever comments, reactions, favorites and ratings were made before.
C24_Step ==
    DeletedNow =>
        \A q \in PostIds \ {last'.pk} :
            /\ {c \in comments' : c.blog = q} = {c \in comments : c.blog = q}
            /\ {r \in favorites' : r.blog = q} = {r \in favorites : r.blog = q}
            /\ \A u \in Users :
                  /\ likes'[<<u, q>>] = likes[<<u, q>>]
                  /\ dislikes'[<<u, q>>] = dislikes[<<u, q>>]
                  /\ ratings'[<<u, q>>] = ratings[<<u, q>>]

C24_DeleteLeavesOtherPosts == [][C24_Step]_vars
====
